---- MODULE Spec2Model ----
(***************************************************************************)
(* Model of src/src/api/helpers.c: the conversion between the API's        *)
(* Object values and the interpreter's typval_T values, the dictionary     *)
(* accessors dict_get_value / dict_set_value, and try_start / try_end.     *)
(*                                                                         *)
(* Memory is a heap of cells addressed by their index.  A cell is a        *)
(* list_T, a dict_T, a listitem_T, a dictitem_T or a free-standing         *)
(* typval_T (a caller's variable).  A cell is never reused: `freed` counts *)
(* how often it was released and `uaf` how often it was accessed after     *)
(* its release.  Strings are byte sequences; NUL is the byte 0.            *)
(***************************************************************************)
EXTENDS Integers, Sequences, FiniteSets, TLC

VARIABLES heap, err, rv, ret, call, ops, conv,
          trylevel, did_emsg, got_int, msg_list, did_throw

vars == <<heap, err, rv, ret, call, ops, conv,
          trylevel, did_emsg, got_int, msg_list, did_throw>>

(***************************************************************************)
(* Bounds of the model.                                                    *)
(***************************************************************************)
\* Largest number of nodes of an Object handed to object_to_vim.
MaxNodes == 3
\* Largest number of calls in one run of the dictionary accessors.
MaxOps == 4
\* Largest number of host mutations that build a value graph.
MaxHostSteps == 4
\* Largest nesting of try_start.
MaxTry == 2

(***************************************************************************)
(* Constants of the program.                                               *)
(***************************************************************************)
NUL == 0
NULL == 0

kObjectTypeNil == "kObjectTypeNil"
kObjectTypeBool == "kObjectTypeBool"
kObjectTypeInt == "kObjectTypeInt"
kObjectTypeString == "kObjectTypeString"
kObjectTypeArray == "kObjectTypeArray"
kObjectTypeDictionary == "kObjectTypeDictionary"

VAR_UNKNOWN == "VAR_UNKNOWN"
VAR_NUMBER == "VAR_NUMBER"
VAR_STRING == "VAR_STRING"
VAR_LIST == "VAR_LIST"
VAR_DICT == "VAR_DICT"

(***************************************************************************)
(* Object: the API's value.  `items` holds an Array's elements or a        *)
(* Dictionary's KeyValuePairs, in order.                                   *)
(***************************************************************************)
Object(t, b, i, s, it) ==
    [type |-> t, boolean |-> b, integer |-> i, string |-> s, items |-> it]

NilObj == Object(kObjectTypeNil, FALSE, 0, <<>>, <<>>)
BoolObj(b) == Object(kObjectTypeBool, b, 0, <<>>, <<>>)
IntObj(i) == Object(kObjectTypeInt, FALSE, i, <<>>, <<>>)
StringObj(s) == Object(kObjectTypeString, FALSE, 0, s, <<>>)
ArrayObj(it) == Object(kObjectTypeArray, FALSE, 0, <<>>, it)
DictionaryObj(it) == Object(kObjectTypeDictionary, FALSE, 0, <<>>, it)
KeyValuePair(k, v) == [key |-> k, value |-> v]

(***************************************************************************)
(* Error: the set flag and the message.                                    *)
(***************************************************************************)
NoError == [set |-> FALSE, msg |-> ""]
set_api_error(msg, e) == [set |-> TRUE, msg |-> msg]

(***************************************************************************)
(* C strings.  A buffer of bytes followed by NUL reads as the bytes before *)
(* its first NUL: this is what strlen, xstrdup, xstrndup and the key       *)
(* functions of the hash table see.                                        *)
(***************************************************************************)
RECURSIVE CStr(_)
CStr(s) ==
    IF s = <<>> \/ Head(s) = NUL THEN <<>> ELSE <<Head(s)>> \o CStr(Tail(s))

xstrndup(data, size) == CStr(SubSeq(data, 1, size))
xstrdup(s) == CStr(s)
strlen(s) == Len(CStr(s))

(***************************************************************************)
(* typval_T.  v_string is <<>> for a NULL pointer and <<bytes>> for a      *)
(* buffer; v_ptr is the v_list / v_dict member, a cell address or NULL.    *)
(***************************************************************************)
typval(t, n, s, p) == [v_type |-> t, v_number |-> n, v_string |-> s, v_ptr |-> p]

TvUnknown == typval(VAR_UNKNOWN, 0, <<>>, NULL)
TvNumber(n) == typval(VAR_NUMBER, n, <<>>, NULL)
TvString(s) == typval(VAR_STRING, 0, <<s>>, NULL)
TvNullString == typval(VAR_STRING, 0, <<>>, NULL)
TvList(l) == typval(VAR_LIST, 0, <<>>, l)
TvDict(d) == typval(VAR_DICT, 0, <<>>, d)

(***************************************************************************)
(* Heap cells.                                                             *)
(***************************************************************************)
Cell(k) ==
    [kind |-> k, refcount |-> 0, lock |-> FALSE, items |-> <<>>,
     key |-> <<>>, tv |-> TvUnknown, freed |-> 0, uaf |-> 0]

list_alloc(h) == Append(h, Cell("list_T"))
dict_alloc(h) == Append(h, Cell("dict_T"))
listitem_alloc(h) == Append(h, Cell("listitem_T"))
dictitem_alloc(h, k) == Append(h, [Cell("dictitem_T") EXCEPT !.key = CStr(k)])
typval_alloc(h) == Append(h, Cell("typval_T"))

list_append(h, l, li) == [h EXCEPT ![l].items = Append(@, li)]
\* hash_add refuses a key the table holds already; the item stays unattached.
dict_add(h, d, di) ==
    IF \E j \in 1..Len(h[d].items) : h[h[d].items[j]].key = h[di].key
    THEN h
    ELSE [h EXCEPT ![d].items = Append(@, di)]

\* free(): the cell is released once more.
Release(h, a) == [h EXCEPT ![a].freed = @ + 1]
\* A write to a cell that was released already.
Touch(h, a) == [h EXCEPT ![a].uaf = @ + 1]

Live(h, a) == h[a].freed = 0

(***************************************************************************)
(* clear_tv, list_unref, dict_unref, list_free, dict_free, listitem_free   *)
(* and dictitem_free of the interpreter.  Unreferencing a container that   *)
(* was released already reads its reference count from freed memory: `ub`  *)
(* says whether the value read makes the count drop to zero (the container *)
(* is freed a second time) or not (freed memory is only written).          *)
(***************************************************************************)
RECURSIVE clear_tv(_, _, _), container_unref(_, _, _), container_free(_, _, _, _),
          FreeItems(_, _, _, _)

container_unref(h, c, ub) ==
    IF c = NULL THEN h
    ELSE IF ~Live(h, c)
         THEN IF ub THEN Release(Touch(h, c), c) ELSE Touch(h, c)
         ELSE LET h1 == [h EXCEPT ![c].refcount = @ - 1]
              IN  IF h1[c].refcount <= 0
                  THEN container_free(h1, c, TRUE, ub)
                  ELSE h1

list_unref(h, l, ub) == container_unref(h, l, ub)
dict_unref(h, d, ub) == container_unref(h, d, ub)

clear_tv(h, tv, ub) ==
    CASE tv.v_type = VAR_LIST -> list_unref(h, tv.v_ptr, ub)
      [] tv.v_type = VAR_DICT -> dict_unref(h, tv.v_ptr, ub)
      [] OTHER -> h

\* The items of a container that is being freed: each item's value is
\* cleared (a container value only with `recurse`), then the item is freed.
FreeItems(h, items, recurse, ub) ==
    IF items = <<>> THEN h
    ELSE LET it == Head(items)
             tv == h[it].tv
             h1 == IF recurse \/ tv.v_type \notin {VAR_LIST, VAR_DICT}
                   THEN clear_tv(h, tv, ub) ELSE h
         IN  FreeItems(Release(h1, it), Tail(items), recurse, ub)

container_free(h, c, recurse, ub) ==
    LET h1 == FreeItems(h, h[c].items, recurse, ub)
    IN  Release([h1 EXCEPT ![c].items = <<>>], c)

list_free(h, l, recurse, ub) == container_free(h, l, recurse, ub)
dict_free(h, d, recurse, ub) == container_free(h, d, recurse, ub)

listitem_free(h, li, ub) == Release(clear_tv(h, h[li].tv, ub), li)
dictitem_free(h, di, ub) == Release(clear_tv(h, h[di].tv, ub), di)

\* copy_tv: a string is duplicated, a container gains a reference.
copy_tv(h, from) ==
    IF from.v_type \in {VAR_LIST, VAR_DICT} /\ from.v_ptr # NULL
    THEN [h EXCEPT ![from.v_ptr].refcount = @ + 1]
    ELSE h

(***************************************************************************)
(* object_to_vim (lines 148-234).  The result is what the call leaves      *)
(* behind: its return value `ok`, the typval written through `tv`, the     *)
(* heap and the Error.                                                     *)
(***************************************************************************)
\* IncRefcount without the increment.
IncRefcount_Missing(h, c) == h

\* Lines 197 and 229: the finished container gets its first reference.
IncRefcount(h, c) == [h EXCEPT ![c].refcount = @ + 1]

RECURSIVE object_to_vim(_, _, _, _), ArrayLoop(_, _, _, _, _, _),
          DictionaryLoop(_, _, _, _, _, _)

\* Lines 184-196: the items of an Array, from item i on, into list l.
ArrayLoop(items, i, l, h, e, ub) ==
    IF i > Len(items) THEN [ok |-> TRUE, h |-> h, err |-> e]
    ELSE LET h1 == listitem_alloc(h)
             li == Len(h1)
             r  == object_to_vim(items[i], h1, e, ub)
             h2 == [r.h EXCEPT ![li].tv = r.tv]
         IN  IF ~r.ok
             THEN [ok |-> FALSE,
                   h |-> list_free(listitem_free(h2, li, ub), l, TRUE, ub),
                   err |-> r.err]
             ELSE ArrayLoop(items, i + 1, l, list_append(h2, l, li), r.err, ub)

\* Lines 204-228: the pairs of a Dictionary, from pair i on, into dict d.
DictionaryLoop(items, i, d, h, e, ub) ==
    IF i > Len(items) THEN [ok |-> TRUE, h |-> h, err |-> e]
    ELSE LET key == items[i].key
         IN  IF Len(key) = 0
             THEN [ok |-> FALSE,
                   h |-> dict_free(h, d, TRUE, ub),
                   err |-> set_api_error("Empty dictionary keys aren't allowed", e)]
             ELSE LET h1 == dictitem_alloc(h, key)
                      di == Len(h1)
                      r  == object_to_vim(items[i].value, h1, e, ub)
                      h2 == [r.h EXCEPT ![di].tv = r.tv]
                  IN  IF ~r.ok
                      THEN [ok |-> FALSE,
                            h |-> dict_free(dictitem_free(h2, di, ub), d, TRUE, ub),
                            err |-> r.err]
                      ELSE DictionaryLoop(items, i + 1, d, dict_add(h2, d, di),
                                          r.err, ub)

object_to_vim(obj, h, e, ub) ==
    CASE obj.type = kObjectTypeNil ->
           [ok |-> TRUE, tv |-> TvNumber(0), h |-> h, err |-> e]
      [] obj.type = kObjectTypeBool ->
           [ok |-> TRUE, tv |-> TvNumber(IF obj.boolean THEN 1 ELSE 0),
            h |-> h, err |-> e]
      [] obj.type = kObjectTypeInt ->
           [ok |-> TRUE, tv |-> TvNumber(obj.integer), h |-> h, err |-> e]
      [] obj.type = kObjectTypeString ->
           [ok |-> TRUE, tv |-> TvString(xstrndup(obj.string, Len(obj.string))),
            h |-> h, err |-> e]
      [] obj.type = kObjectTypeArray ->
           LET h1 == list_alloc(h)
               l  == Len(h1)
               r  == ArrayLoop(obj.items, 1, l, h1, e, ub)
           IN  IF ~r.ok
               THEN [ok |-> FALSE, tv |-> TvList(l), h |-> r.h, err |-> r.err]
               ELSE [ok |-> TRUE, tv |-> TvList(l), h |-> IncRefcount(r.h, l),
                     err |-> r.err]
      [] obj.type = kObjectTypeDictionary ->
           LET h1 == dict_alloc(h)
               d  == Len(h1)
               r  == DictionaryLoop(obj.items, 1, d, h1, e, ub)
           IN  IF ~r.ok
               THEN [ok |-> FALSE, tv |-> TvDict(d), h |-> r.h, err |-> r.err]
               ELSE [ok |-> TRUE, tv |-> TvDict(d), h |-> IncRefcount(r.h, d),
                     err |-> r.err]
      [] OTHER -> [ok |-> TRUE, tv |-> TvUnknown, h |-> h, err |-> e]

(***************************************************************************)
(* vim_to_object_rec (lines 236-338).  `obj` is the address of the cell    *)
(* that holds the typval; `lookup` is the set of the addresses put in the  *)
(* table.  The result carries the table on to the next sibling.  Two       *)
(* fields observe the run: `expanded`, the containers whose members were   *)
(* walked, in order, and `overflow`, set when the call nests deeper than   *)
(* `depth` frames.                                                         *)
(***************************************************************************)
\* AlreadyProcessed with the result of kh_put ignored.
AlreadyProcessed_Ignored(obj, tv, lookup) == FALSE

\* Lines 240-249: a typval of container type whose address is in the table.
AlreadyProcessed(obj, tv, lookup) ==
    tv.v_type \in {VAR_LIST, VAR_DICT} /\ obj \in lookup

\* Line 243: kh_put of a container typval's address.
PutLookup(obj, tv, lookup) ==
    IF tv.v_type \in {VAR_LIST, VAR_DICT} THEN lookup \cup {obj} ELSE lookup

\* StringToObject testing the first byte in place of the pointer.
StringToObject_EmptyIsNil(tv) ==
    IF tv.v_string # <<>> /\ strlen(tv.v_string[1]) > 0
    THEN LET data == xstrdup(tv.v_string[1])
         IN  Object(kObjectTypeString, FALSE, 0, SubSeq(data, 1, strlen(data)), <<>>)
    ELSE NilObj

\* Lines 252-258: a string typval.
StringToObject(tv) ==
    IF tv.v_string # <<>>
    THEN LET data == xstrdup(tv.v_string[1])
         IN  Object(kObjectTypeString, FALSE, 0, SubSeq(data, 1, strlen(data)), <<>>)
    ELSE NilObj

Converted(o, lookup, expanded, overflow) ==
    [rv |-> o, lookup |-> lookup, expanded |-> expanded, overflow |-> overflow]

RECURSIVE vim_to_object_rec(_, _, _, _), ListItems(_, _, _, _, _),
          DictItems(_, _, _, _, _)

\* Lines 281-284: the items of a list, in list order.
ListItems(h, items, lookup, depth, acc) ==
    IF items = <<>> THEN acc
    ELSE LET r == vim_to_object_rec(h, Head(items), lookup, depth)
         IN  ListItems(h, Tail(items), r.lookup, depth,
                 Converted(Append(acc.rv, r.rv), r.lookup,
                           acc.expanded \o r.expanded,
                           acc.overflow \/ r.overflow))

\* Lines 317-331: the used slots of the hash table, in table order.
DictItems(h, items, lookup, depth, acc) ==
    IF items = <<>> THEN acc
    ELSE LET hi == Head(items)
             r  == vim_to_object_rec(h, hi, lookup, depth)
             kv == KeyValuePair(SubSeq(xstrdup(h[hi].key), 1, strlen(h[hi].key)),
                                r.rv)
         IN  DictItems(h, Tail(items), r.lookup, depth,
                 Converted(Append(acc.rv, kv), r.lookup,
                           acc.expanded \o r.expanded,
                           acc.overflow \/ r.overflow))

vim_to_object_rec(h, obj, lookup, depth) ==
    LET tv == h[obj].tv
    IN  IF depth = 0 THEN Converted(NilObj, lookup, <<>>, TRUE)
        ELSE IF AlreadyProcessed(obj, tv, lookup)
        THEN Converted(NilObj, lookup, <<>>, FALSE)
        ELSE LET lk == PutLookup(obj, tv, lookup)
             IN  CASE tv.v_type = VAR_STRING ->
                        Converted(StringToObject(tv), lk, <<>>, FALSE)
                   [] tv.v_type = VAR_NUMBER ->
                        Converted(IntObj(tv.v_number), lk, <<>>, FALSE)
                   [] tv.v_type = VAR_LIST ->
                        IF tv.v_ptr # NULL
                        THEN LET r == ListItems(h, h[tv.v_ptr].items, lk, depth - 1,
                                          Converted(<<>>, lk, <<tv.v_ptr>>, FALSE))
                             IN  Converted(ArrayObj(r.rv), r.lookup, r.expanded,
                                           r.overflow)
                        ELSE Converted(NilObj, lk, <<>>, FALSE)
                   [] tv.v_type = VAR_DICT ->
                        IF tv.v_ptr # NULL
                        THEN LET r == DictItems(h, h[tv.v_ptr].items, lk, depth - 1,
                                          Converted(<<>>, lk, <<tv.v_ptr>>, FALSE))
                             IN  Converted(DictionaryObj(r.rv), r.lookup, r.expanded,
                                           r.overflow)
                        ELSE Converted(NilObj, lk, <<>>, FALSE)
                   [] OTHER -> Converted(NilObj, lk, <<>>, FALSE)

\* The deepest nesting a run over heap h can reach: one frame for each cell
\* that holds a typval, and one more.
StackFrames(h) == Len(h) + 1

\* vim_to_object (lines 137-146): a fresh table for each call.
vim_to_object(h, obj) == vim_to_object_rec(h, obj, {}, StackFrames(h))

(***************************************************************************)
(* The Objects a caller passes.  Bytes 1 and 2 stand for two letters; keys *)
(* of one Dictionary are pairwise different, as the API promises.          *)
(***************************************************************************)
Strings == {<<>>, <<1>>, <<1, NUL, 2>>}
DictKeys == {<<>>, <<1>>, <<2>>, <<NUL, 1>>, <<1, NUL>>}
Scalars ==
    {NilObj, BoolObj(TRUE), BoolObj(FALSE), IntObj(0), IntObj(1)}
        \cup {StringObj(s) : s \in Strings}

UniqueKeys(items) ==
    \A i, j \in 1..Len(items) : items[i].key = items[j].key => i = j

\* The Objects of one node.
Leaves == Scalars \cup {ArrayObj(<<>>), DictionaryObj(<<>>)}

RECURSIVE NodeCount(_), SumNodes(_, _), Insertions(_)

\* The nodes of o: a scalar is one node, a container one more than its
\* members.
NodeCount(o) ==
    CASE o.type = kObjectTypeArray ->
           1 + SumNodes([i \in 1..Len(o.items) |-> o.items[i]], Len(o.items))
      [] o.type = kObjectTypeDictionary ->
           1 + SumNodes([i \in 1..Len(o.items) |-> o.items[i].value], Len(o.items))
      [] OTHER -> 1
SumNodes(os, n) == IF n = 0 THEN 0 ELSE NodeCount(os[n]) + SumNodes(os, n - 1)

InsertAt(seq, i, x) == SubSeq(seq, 1, i - 1) \o <<x>> \o SubSeq(seq, i, Len(seq))

\* The Objects made from o by one more member, of one node, in some Array
\* or Dictionary of o.  Every Object is made from a leaf in this way.
Insertions(o) ==
    CASE o.type = kObjectTypeArray ->
           {ArrayObj(InsertAt(o.items, i, x)) :
               i \in 1..(Len(o.items) + 1), x \in Leaves}
           \cup UNION {{ArrayObj([o.items EXCEPT ![i] = y]) :
                           y \in Insertions(o.items[i])} : i \in 1..Len(o.items)}
      [] o.type = kObjectTypeDictionary ->
           {q \in {DictionaryObj(InsertAt(o.items, i, KeyValuePair(key, x))) :
                      i \in 1..(Len(o.items) + 1), key \in DictKeys, x \in Leaves} :
                UniqueKeys(q.items)}
           \cup UNION {{DictionaryObj([o.items EXCEPT ![i].value = y]) :
                           y \in Insertions(o.items[i].value)} :
                       i \in 1..Len(o.items)}
      [] OTHER -> {}

(***************************************************************************)
(* The record of the last call.                                            *)
(***************************************************************************)
\* What was pending when a call was made.
Pending ==
    [got_int |-> got_int, msg_list |-> msg_list, did_throw |-> did_throw,
     err_set |-> err.set]
NothingPending ==
    [got_int |-> FALSE, msg_list |-> "", did_throw |-> FALSE, err_set |-> FALSE]

\* `repeat` says that the call before was the same call.
Call(op, key, pop, value) ==
    [op |-> op, key |-> key, pop |-> pop, value |-> value,
     repeat |-> (call.op = op /\ call.key = key /\ call.pop = pop
                    /\ call.value = value),
     pending |-> Pending]
FirstCall(op, value) ==
    [op |-> op, key |-> <<>>, pop |-> FALSE, value |-> value, repeat |-> FALSE,
     pending |-> NothingPending]

NoConv == [root |-> NULL, expanded |-> <<>>, overflow |-> FALSE]

\* The address of the caller's typval in a conversion run.
CallerTv == 1

HostQuiet ==
    /\ trylevel = 0
    /\ did_emsg = FALSE
    /\ got_int = FALSE
    /\ msg_list = ""
    /\ did_throw = FALSE

UnchangedHost == UNCHANGED <<trylevel, did_emsg, got_int, msg_list, did_throw>>

(***************************************************************************)
(* SpecConv: a caller builds an Object, converts it to a typval of its own  *)
(* and converts that back.                                                 *)
(***************************************************************************)
InitConv ==
    /\ heap = typval_alloc(<<>>)
    /\ err = NoError
    /\ rv = NilObj
    /\ ret = FALSE
    /\ \E v \in Leaves : call = FirstCall("input", v)
    /\ ops = 0
    /\ conv = NoConv
    /\ HostQuiet

\* The caller adds a member to the Object it is going to pass.
BuildObject ==
    /\ call.op = "input"
    /\ NodeCount(call.value) < MaxNodes
    /\ \E o \in Insertions(call.value) : call' = [call EXCEPT !.value = o]
    /\ UNCHANGED <<heap, err, rv, ret, ops, conv>>
    /\ UnchangedHost

\* convertFromNeutral: object_to_vim(value, &tv, &err).
ConvertFromNeutral ==
    /\ call.op = "input"
    /\ \E ub \in BOOLEAN :
         LET r == object_to_vim(call.value, heap, err, ub)
         IN  /\ heap' = [r.h EXCEPT ![CallerTv].tv = r.tv]
             /\ err' = r.err
             /\ ret' = r.ok
             /\ call' = [call EXCEPT !.op = "convertFromNeutral"]
    /\ ops' = ops + 1
    /\ UNCHANGED <<rv, conv>>
    /\ UnchangedHost

\* convertToNeutral: vim_to_object(&tv) of the typval just built.
ConvertToNeutral ==
    /\ call.op = "convertFromNeutral"
    /\ ret
    /\ LET r == vim_to_object(heap, CallerTv)
       IN  /\ rv' = r.rv
           /\ conv' = [root |-> CallerTv, expanded |-> r.expanded,
                       overflow |-> r.overflow]
    /\ call' = [call EXCEPT !.op = "convertToNeutral"]
    /\ ops' = ops + 1
    /\ UNCHANGED <<heap, err, ret>>
    /\ UnchangedHost

NextConv == BuildObject \/ ConvertFromNeutral \/ ConvertToNeutral

SpecConv == InitConv /\ [][NextConv]_vars

(***************************************************************************)
(* Predicates on Objects used by the properties.                           *)
(***************************************************************************)
RECURSIVE StructEq(_, _), HasEmptyKey(_), NulFree(_), Normalised(_), KeepFirst(_, _)

\* Structural equality: scalars by tag and value, Arrays by length and
\* order, Dictionaries by key set and value per key.
StructEq(a, b) ==
    /\ a.type = b.type
    /\ CASE a.type = kObjectTypeNil -> TRUE
         [] a.type = kObjectTypeBool -> a.boolean = b.boolean
         [] a.type = kObjectTypeInt -> a.integer = b.integer
         [] a.type = kObjectTypeString -> a.string = b.string
         [] a.type = kObjectTypeArray ->
              /\ Len(a.items) = Len(b.items)
              /\ \A i \in 1..Len(a.items) : StructEq(a.items[i], b.items[i])
         [] a.type = kObjectTypeDictionary ->
              /\ Len(a.items) = Len(b.items)
              /\ \A i \in 1..Len(a.items) : \E j \in 1..Len(b.items) :
                    /\ a.items[i].key = b.items[j].key
                    /\ StructEq(a.items[i].value, b.items[j].value)
              /\ \A j \in 1..Len(b.items) : \E i \in 1..Len(a.items) :
                    a.items[i].key = b.items[j].key
         [] OTHER -> FALSE

\* Some Dictionary inside o, at any depth, has a key of size 0.
HasEmptyKey(o) ==
    CASE o.type = kObjectTypeArray ->
           \E i \in 1..Len(o.items) : HasEmptyKey(o.items[i])
      [] o.type = kObjectTypeDictionary ->
           \E i \in 1..Len(o.items) :
               Len(o.items[i].key) = 0 \/ HasEmptyKey(o.items[i].value)
      [] OTHER -> FALSE

HasNul(s) == \E i \in 1..Len(s) : s[i] = NUL

\* No String and no key inside o holds a NUL byte.
NulFree(o) ==
    CASE o.type = kObjectTypeString -> ~HasNul(o.string)
      [] o.type = kObjectTypeArray ->
           \A i \in 1..Len(o.items) : NulFree(o.items[i])
      [] o.type = kObjectTypeDictionary ->
           \A i \in 1..Len(o.items) :
               ~HasNul(o.items[i].key) /\ NulFree(o.items[i].value)
      [] OTHER -> TRUE

\* The first n pairs of ps without those whose key an earlier pair has.
KeepFirst(ps, n) ==
    IF n = 0 THEN <<>>
    ELSE IF \E j \in 1..(n - 1) : ps[j].key = ps[n].key
         THEN KeepFirst(ps, n - 1)
         ELSE Append(KeepFirst(ps, n - 1), ps[n])

\* o with every Nil replaced by Int 0, every Bool by Int 0 or 1, every
\* String and key cut at its first NUL byte and, of the pairs of a
\* Dictionary whose cut keys are the same, only the first.
Normalised(o) ==
    CASE o.type = kObjectTypeNil -> IntObj(0)
      [] o.type = kObjectTypeBool -> IntObj(IF o.boolean THEN 1 ELSE 0)
      [] o.type = kObjectTypeString -> StringObj(CStr(o.string))
      [] o.type = kObjectTypeArray ->
           ArrayObj([i \in 1..Len(o.items) |-> Normalised(o.items[i])])
      [] o.type = kObjectTypeDictionary ->
           DictionaryObj(KeepFirst(
               [i \in 1..Len(o.items) |->
                   KeyValuePair(CStr(o.items[i].key), Normalised(o.items[i].value))],
               Len(o.items)))
      [] OTHER -> o

EmptyKeyError == set_api_error("Empty dictionary keys aren't allowed", NoError)

\* The cells of heap h allocated after its first `base` cells.
AllocatedSince(h, base) == (base + 1)..Len(h)

C2_AtomicFailure ==
    (call.op = "convertFromNeutral" /\ HasEmptyKey(call.value))
        => /\ ~ret
           /\ err = EmptyKeyError
           /\ \A a \in AllocatedSince(heap, CallerTv) :
                 heap[a].freed = 1 /\ heap[a].uaf = 0

(***************************************************************************)
(* SpecGraph: the interpreter builds a graph of lists and dicts, cycles    *)
(* and shared containers included, and vim_to_object converts one of its   *)
(* typvals.  Cell 1 is a variable of the interpreter; it holds the first   *)
(* container.                                                              *)
(***************************************************************************)
Containers(h) == {a \in 1..Len(h) : h[a].kind \in {"list_T", "dict_T"}}
TypvalCells(h) ==
    {a \in 1..Len(h) : h[a].kind \in {"typval_T", "listitem_T", "dictitem_T"}}

TvOf(h, c) == IF h[c].kind = "list_T" THEN TvList(c) ELSE TvDict(c)

\* The values the interpreter can store: a number, a string without a
\* buffer, or one more reference to a container of the heap.
HostValues(h) == {TvNumber(0), TvNullString} \cup {TvOf(h, c) : c \in Containers(h)}

InitGraph ==
    /\ \E kind \in {"list_T", "dict_T"} :
         LET h1 == Append(typval_alloc(<<>>), Cell(kind))
             c  == Len(h1)
         IN  heap = [copy_tv(h1, TvOf(h1, c)) EXCEPT ![CallerTv].tv = TvOf(h1, c)]
    /\ err = NoError
    /\ rv = NilObj
    /\ ret = FALSE
    /\ call = FirstCall("host", NilObj)
    /\ ops = 0
    /\ conv = NoConv
    /\ HostQuiet

\* The interpreter creates an empty list or dict.
HostNewContainer ==
    /\ call.op = "host"
    /\ ops < MaxHostSteps
    /\ \E kind \in {"list_T", "dict_T"} : heap' = Append(heap, Cell(kind))
    /\ ops' = ops + 1
    /\ UNCHANGED <<err, rv, ret, call, conv>>
    /\ UnchangedHost

\* The interpreter adds a value to a list, or to a dict under a new key.
HostAddItem ==
    /\ call.op = "host"
    /\ ops < MaxHostSteps
    /\ \E c \in Containers(heap), tv \in HostValues(heap) :
         LET h1 == IF heap[c].kind = "list_T"
                   THEN listitem_alloc(heap)
                   ELSE dictitem_alloc(heap, <<Len(heap[c].items) + 1>>)
             it == Len(h1)
             h2 == [copy_tv(h1, tv) EXCEPT ![it].tv = tv]
         IN  heap' = IF heap[c].kind = "list_T"
                     THEN list_append(h2, c, it)
                     ELSE dict_add(h2, c, it)
    /\ ops' = ops + 1
    /\ UNCHANGED <<err, rv, ret, call, conv>>
    /\ UnchangedHost

\* convertToNeutral of a typval of the graph: the variable, or the typval
\* of a list item or dict entry (as dict_get_value passes it).
ConvertGraph ==
    /\ call.op = "host"
    /\ \E obj \in TypvalCells(heap) :
         LET r == vim_to_object(heap, obj)
         IN  /\ rv' = r.rv
             /\ conv' = [root |-> obj, expanded |-> r.expanded,
                         overflow |-> r.overflow]
    /\ call' = [call EXCEPT !.op = "convertToNeutral"]
    /\ UNCHANGED <<heap, err, ret, ops>>
    /\ UnchangedHost

NextGraph == HostNewContainer \/ HostAddItem \/ ConvertGraph

SpecGraph == InitGraph /\ [][NextGraph]_vars

\* Container c holds itself as a direct member.
ContainsItself(h, c) ==
    \E i \in 1..Len(h[c].items) :
        LET tv == h[h[c].items[i]].tv
        IN  tv.v_type \in {VAR_LIST, VAR_DICT} /\ tv.v_ptr = c

NoDuplicates(seq) == \A i, j \in 1..Len(seq) : seq[i] = seq[j] => i = j

\* The typval cells of container type: the addresses the table can hold.
ContainerTypvals(h) ==
    {a \in TypvalCells(h) : h[a].tv.v_type \in {VAR_LIST, VAR_DICT}}

(***************************************************************************)
(* C3, as stated: in one vim_to_object call every container (the list_T or *)
(* dict_T itself) is expanded at most once, and a list that holds itself   *)
(* converts to an Array with Nil in the slot of the self reference.        *)
(***************************************************************************)
C3_ContainerExpandedOnce ==
    call.op = "convertToNeutral" =>
        /\ NoDuplicates(conv.expanded)
        /\ LET tv == heap[conv.root].tv
           IN  (tv.v_type = VAR_LIST /\ tv.v_ptr # NULL) =>
                  \A i \in 1..Len(heap[tv.v_ptr].items) :
                      heap[heap[tv.v_ptr].items[i]].tv = tv
                          => rv.items[i] = NilObj

(***************************************************************************)
(* C4: vim_to_object of any typval of any graph, cyclic or not, returns:   *)
(* its recursion never nests deeper than one frame for each typval of the  *)
(* heap and one more, it expands members at most once for each typval of   *)
(* container type, and it sets no Error.                                   *)
(***************************************************************************)
C4_Terminates ==
    call.op = "convertToNeutral" =>
        /\ ~conv.overflow
        /\ Len(conv.expanded) <= Cardinality(ContainerTypvals(heap))
        /\ ~err.set

\* A list that holds itself and a dict that holds the list were converted.
C4_Witness ==
    /\ call.op = "convertToNeutral"
    /\ conv.root = CallerTv
    /\ \E l, d \in Containers(heap) :
          /\ heap[l].kind = "list_T"
          /\ heap[d].kind = "dict_T"
          /\ heap[CallerTv].tv = TvDict(d)
          /\ ContainsItself(heap, l)
          /\ \E i \in 1..Len(heap[d].items) : heap[heap[d].items[i]].tv = TvList(l)
          /\ \E i \in 1..Len(heap[l].items) : heap[heap[l].items[i]].tv = TvDict(d)
    /\ rv.type = kObjectTypeDictionary

(***************************************************************************)
(* dict_get_value and dict_set_value.                                      *)
(***************************************************************************)
\* hash_find / dict_find: the item of dict d whose key is the C string k,
\* or NULL.
dict_find(h, d, k) ==
    LET found == {di \in {h[d].items[j] : j \in 1..Len(h[d].items)} :
                     h[di].key = CStr(k)}
    IN  IF found = {} THEN NULL ELSE CHOOSE di \in found : TRUE

\* hash_remove: the item leaves the table.
hash_remove(h, d, di) ==
    [h EXCEPT ![d].items = SelectSeq(@, LAMBDA x : x # di)]

\* PopLocked and SetLocked with the lock test left out.
PopLocked_Unchecked(h, d) == FALSE
SetLocked_Unchecked(h, d) == FALSE

\* Line 87: the lock test of a pop.
PopLocked(h, d) == h[d].lock

\* Line 103: the lock test of a set.
SetLocked(h, d) == h[d].lock

\* Lines 67-97.  `junk` is what the uninitialised rv of line 69 holds when
\* it is returned at line 80.
dict_get_value(h, d, key, pop, e, junk, ub) ==
    LET hi == dict_find(h, d, key)
    IN  IF hi = NULL
        THEN [rv |-> junk, h |-> h, err |-> set_api_error("Key not found", e)]
        ELSE LET val == vim_to_object(h, hi).rv
             IN  IF pop
                 THEN IF PopLocked(h, d)
                      THEN [rv |-> val, h |-> h,
                            err |-> set_api_error("Dictionary is locked", e)]
                      ELSE [rv |-> val,
                            h |-> dictitem_free(hash_remove(h, d, hi), hi, ub),
                            err |-> e]
                 ELSE [rv |-> val, h |-> h, err |-> e]

\* Lines 120-129: the item to store into, and the value to return.  A new
\* item is added under the key; the value of an item found is converted
\* for the caller and cleared.
FindOrAddItem(h, d, key, di, ub) ==
    IF di = NULL
    THEN LET h1 == dictitem_alloc(h, key)
         IN  [rv |-> NilObj, di |-> Len(h1), h |-> dict_add(h1, d, Len(h1))]
    ELSE [rv |-> vim_to_object(h, di).rv, di |-> di,
          h |-> clear_tv(h, h[di].tv, ub)]

\* Lines 131-132: the converted value goes into the item, the temporary
\* typval is cleared.
StoreValue(h, di, tv, ub) ==
    clear_tv([copy_tv(h, tv) EXCEPT ![di].tv = tv], tv, ub)

\* Lines 99-135.
dict_set_value(h, d, key, value, e, ub) ==
    IF SetLocked(h, d)
    THEN [rv |-> NilObj, h |-> h, err |-> set_api_error("Dictionary is locked", e)]
    ELSE IF Len(key) = 0
    THEN [rv |-> NilObj, h |-> h,
          err |-> set_api_error("Empty dictionary keys aren't allowed", e)]
    ELSE LET di == dict_find(h, d, SubSeq(key, 1, Len(key)))
             r  == object_to_vim(value, h, e, ub)
         IN  IF ~r.ok
             THEN [rv |-> NilObj, h |-> r.h, err |-> r.err]
             ELSE LET f == FindOrAddItem(r.h, d, key, di, ub)
                  IN  [rv |-> f.rv, h |-> StoreValue(f.h, f.di, r.tv, ub),
                       err |-> r.err]

(***************************************************************************)
(* SpecDict: callers use dict_get_value and dict_set_value on one dict of  *)
(* the interpreter (cell 1, held by a variable), which the interpreter may *)
(* lock and unlock.                                                        *)
(***************************************************************************)
TheDict == 1

Keys == {<<>>, <<1>>, <<NUL, 1>>}
SetValues ==
    {IntObj(1),
     ArrayObj(<<DictionaryObj(<<KeyValuePair(<<1>>, StringObj(<<1>>))>>)>>),
     ArrayObj(<<DictionaryObj(<<KeyValuePair(<<>>, IntObj(1))>>)>>)}
Junk == {NilObj, IntObj(1)}

InitDict ==
    /\ heap = <<[Cell("dict_T") EXCEPT !.refcount = 1]>>
    /\ err = NoError
    /\ rv = NilObj
    /\ ret = FALSE
    /\ call = FirstCall("none", NilObj)
    /\ ops = 0
    /\ conv = NoConv
    /\ HostQuiet

DictSetCall(key, value) ==
    /\ ops < MaxOps
    /\ \E ub \in BOOLEAN :
         LET r == dict_set_value(heap, TheDict, key, value, err, ub)
         IN  /\ heap' = r.h
             /\ err' = r.err
             /\ rv' = r.rv
    /\ call' = Call("dictSet", key, FALSE, value)
    /\ ops' = ops + 1
    /\ UNCHANGED <<ret, conv>>
    /\ UnchangedHost

DictGetCall(key, pop) ==
    /\ ops < MaxOps
    /\ \E junk \in Junk, ub \in BOOLEAN :
         LET r == dict_get_value(heap, TheDict, key, pop, err, junk, ub)
         IN  /\ heap' = r.h
             /\ err' = r.err
             /\ rv' = r.rv
    /\ call' = Call("dictGet", key, pop, NilObj)
    /\ ops' = ops + 1
    /\ UNCHANGED <<ret, conv>>
    /\ UnchangedHost

DictSet == \E key \in Keys, value \in SetValues : DictSetCall(key, value)

DictGet == \E key \in Keys, pop \in BOOLEAN : DictGetCall(key, pop)

\* The interpreter locks or unlocks the dict (:lockvar, :unlockvar).
HostLock ==
    /\ ops < MaxOps
    /\ heap' = [heap EXCEPT ![TheDict].lock = ~@]
    /\ call' = Call("lock", <<>>, FALSE, NilObj)
    /\ ops' = ops + 1
    /\ UNCHANGED <<err, rv, ret, conv>>
    /\ UnchangedHost

\* The caller starts its next request with a cleared Error.
NewError ==
    /\ ops < MaxOps
    /\ err.set
    /\ err' = NoError
    /\ call' = Call("newError", <<>>, FALSE, NilObj)
    /\ ops' = ops + 1
    /\ UNCHANGED <<heap, rv, ret, conv>>
    /\ UnchangedHost

NextDict == DictSet \/ DictGet \/ HostLock \/ NewError

SpecDict == InitDict /\ [][NextDict]_vars

(***************************************************************************)
(* try_start and try_end.  msg_list is "" for an empty list and the text   *)
(* of its message otherwise; did_throw says that an exception is in        *)
(* flight, and ExceptionValue is its text.                                 *)
(***************************************************************************)
ExceptionValue == "E605: Exception not caught"
MessageTexts == {"E486: Pattern not found"}

\* Line 42: the exception in flight is dropped.
discard_current_exception(dt) == FALSE

\* get_exception_string (line 49): the text of the list's message.
get_exception_string(ml) == ml

\* Capture with the exception tested before the interrupt and the list.
Capture_ExceptionFirst(e, gi, ml, dt) ==
    IF dt
    THEN [err |-> set_api_error(ExceptionValue, e),
          got_int |-> gi, msg_list |-> ml, did_throw |-> dt]
    ELSE IF gi
    THEN [err |-> set_api_error("Keyboard interrupt", e),
          got_int |-> FALSE, msg_list |-> ml, did_throw |-> dt]
    ELSE IF ml # ""
    THEN [err |-> [set |-> TRUE, msg |-> get_exception_string(ml)],
          got_int |-> gi, msg_list |-> "", did_throw |-> dt]
    ELSE [err |-> e, got_int |-> gi, msg_list |-> ml, did_throw |-> dt]

\* Lines 39-62: the Error and the signals try_end leaves.  e, gi, ml and dt
\* are the Error, got_int, msg_list and did_throw as the call finds them.
Capture(e, gi, ml, dt) ==
    IF gi
    THEN [err |-> set_api_error("Keyboard interrupt", e),
          got_int |-> FALSE, msg_list |-> ml,
          did_throw |-> IF dt THEN discard_current_exception(dt) ELSE dt]
    ELSE IF ml # ""
    THEN [err |-> [set |-> TRUE, msg |-> get_exception_string(ml)],
          got_int |-> gi, msg_list |-> "", did_throw |-> dt]
    ELSE IF dt
    THEN [err |-> set_api_error(ExceptionValue, e),
          got_int |-> gi, msg_list |-> ml, did_throw |-> dt]
    ELSE [err |-> e, got_int |-> gi, msg_list |-> ml, did_throw |-> dt]

\* TryEndResult saying whether this call changed the Error.
TryEndResult_Changed(e, captured) == captured.err # e

\* Line 64: the value try_end returns.
TryEndResult(e, captured) == captured.err.set

\* Lines 30-65.
try_end(e, gi, ml, dt) ==
    LET c == Capture(e, gi, ml, dt)
    IN  [ret |-> TryEndResult(e, c), err |-> c.err, got_int |-> c.got_int,
         msg_list |-> c.msg_list, did_throw |-> c.did_throw]

(***************************************************************************)
(* SpecTry: a caller brackets code of the interpreter with try_start and   *)
(* try_end; between them the interpreter may raise any of its three        *)
(* signals, and the caller may use the dictionary accessors with the same  *)
(* Error.                                                                  *)
(***************************************************************************)
TryStart ==
    /\ ops < MaxOps
    /\ trylevel < MaxTry
    /\ trylevel' = trylevel + 1
    /\ call' = Call("tryStart", <<>>, FALSE, NilObj)
    /\ ops' = ops + 1
    /\ UNCHANGED <<heap, err, rv, ret, conv, did_emsg, got_int, msg_list, did_throw>>

TryEnd ==
    /\ ops < MaxOps
    /\ trylevel > 0
    /\ LET r == try_end(err, got_int, msg_list, did_throw)
       IN  /\ ret' = r.ret
           /\ err' = r.err
           /\ got_int' = r.got_int
           /\ msg_list' = r.msg_list
           /\ did_throw' = r.did_throw
    /\ trylevel' = trylevel - 1
    /\ did_emsg' = FALSE
    /\ call' = Call("tryEnd", <<>>, FALSE, NilObj)
    /\ ops' = ops + 1
    /\ UNCHANGED <<heap, rv, conv>>

\* Code of the interpreter runs inside the bracket and leaves its signals.
HostRun ==
    /\ ops < MaxOps
    /\ trylevel > 0
    /\ got_int' \in BOOLEAN
    /\ msg_list' \in {""} \cup MessageTexts
    /\ did_throw' \in BOOLEAN
    /\ did_emsg' = (msg_list' # "" \/ did_throw')
    /\ call' = Call("hostRun", <<>>, FALSE, NilObj)
    /\ ops' = ops + 1
    /\ UNCHANGED <<heap, err, rv, ret, conv, trylevel>>

\* A dict_set_value that fails on its empty key.
FailingDictSet == DictSetCall(<<>>, IntObj(1))

\* A dict_get_value of a key, present or not.
PlainDictGet == DictGetCall(<<1>>, FALSE)

\* A dict_set_value that succeeds.
PlainDictSet == DictSetCall(<<1>>, IntObj(1))

NextTry ==
    \/ TryStart
    \/ TryEnd
    \/ HostRun
    \/ FailingDictSet
    \/ PlainDictGet
    \/ PlainDictSet
    \/ NewError

SpecTry == InitDict /\ [][NextTry]_vars

(***************************************************************************)
(* Properties of the dictionary accessors.                                 *)
(***************************************************************************)
LockedError == set_api_error("Dictionary is locked", NoError)

Entries(h, d) == {h[d].items[j] : j \in 1..Len(h[d].items)}

\* The entries of dict d stored under exactly the bytes of `key`.
EntriesFor(h, d, key) == {di \in Entries(h, d) : h[di].key = key}

\* The live typval cells that refer to container c.
Bindings(h, c) ==
    {a \in TypvalCells(h) :
        Live(h, a) /\ h[a].tv.v_type \in {VAR_LIST, VAR_DICT} /\ h[a].tv.v_ptr = c}

\* The typval tv of heap h is the conversion of Object o.
RECURSIVE Represents(_, _, _)
Represents(h, tv, o) ==
    CASE o.type = kObjectTypeNil -> tv = TvNumber(0)
      [] o.type = kObjectTypeBool -> tv = TvNumber(IF o.boolean THEN 1 ELSE 0)
      [] o.type = kObjectTypeInt -> tv = TvNumber(o.integer)
      [] o.type = kObjectTypeString -> tv = TvString(CStr(o.string))
      [] o.type = kObjectTypeArray ->
           /\ tv.v_type = VAR_LIST /\ tv.v_ptr # NULL
           /\ Live(h, tv.v_ptr)
           /\ Len(h[tv.v_ptr].items) = Len(o.items)
           /\ \A i \in 1..Len(o.items) :
                 Represents(h, h[h[tv.v_ptr].items[i]].tv, o.items[i])
      [] o.type = kObjectTypeDictionary ->
           /\ tv.v_type = VAR_DICT /\ tv.v_ptr # NULL
           /\ Live(h, tv.v_ptr)
           /\ Len(h[tv.v_ptr].items) = Len(o.items)
           /\ \A i \in 1..Len(o.items) :
                 /\ h[h[tv.v_ptr].items[i]].key = CStr(o.items[i].key)
                 /\ Represents(h, h[h[tv.v_ptr].items[i]].tv, o.items[i].value)
      [] OTHER -> FALSE

(***************************************************************************)
(* C5: dict_set_value on a locked dict sets the "Dictionary is locked"     *)
(* error whatever the key and the value are, returns Nil, and leaves the   *)
(* dict and the whole heap as they were.                                   *)
(***************************************************************************)
C5_LockEnforced ==
    [][(call'.op = "dictSet" /\ heap[TheDict].lock)
          => /\ err' = LockedError
             /\ rv' = NilObj
             /\ heap' = heap]_vars

\* A set of a value with an empty key was refused by a locked dict that
\* holds an entry.
C5_Witness ==
    /\ call.op = "dictSet"
    /\ heap[TheDict].lock
    /\ Len(heap[TheDict].items) = 1
    /\ HasEmptyKey(call.value)
    /\ call.key # <<>>
    /\ err = LockedError

(***************************************************************************)
(* C6, as stated: dict_get_value with pop on a locked dict that holds the  *)
(* key succeeds (no error is set), returns the value, and the entry stays. *)
(***************************************************************************)
C6_PopOnLockedSucceeds ==
    [][(/\ call'.op = "dictGet" /\ call'.pop
        /\ ~err.set
        /\ heap[TheDict].lock
        /\ dict_find(heap, TheDict, call'.key) # NULL)
          => /\ ~err'.set
             /\ rv' = vim_to_object(heap, dict_find(heap, TheDict, call'.key)).rv
             /\ dict_find(heap', TheDict, call'.key) # NULL]_vars

(***************************************************************************)
(* C6, amended: dict_get_value with pop on a locked dict that holds the    *)
(* key sets the "Dictionary is locked" error and still returns the value   *)
(* stored under the key; the heap is unchanged, so the entry stays, and a  *)
(* second identical call gives the same error and the same value.          *)
(***************************************************************************)
C6_PopOnLockedFails ==
    [][(/\ call'.op = "dictGet" /\ call'.pop
        /\ heap[TheDict].lock
        /\ dict_find(heap, TheDict, call'.key) # NULL)
          => /\ err' = LockedError
             /\ rv' = vim_to_object(heap, dict_find(heap, TheDict, call'.key)).rv
             /\ heap' = heap
             /\ call'.repeat => (rv' = rv /\ err' = err)]_vars

\* The second of two identical pops on a locked dict returned the stored
\* Array and left the entry.
C6_Witness ==
    /\ call.op = "dictGet" /\ call.pop /\ call.repeat
    /\ heap[TheDict].lock
    /\ dict_find(heap, TheDict, call.key) # NULL
    /\ rv.type = kObjectTypeArray
    /\ err = LockedError

(***************************************************************************)
(* C8, as stated: dict_set_value on an unlocked dict, with a key of size   *)
(* above 0 and a value that converts, returns the conversion of the value  *)
(* stored under the key before (Nil if there was none); afterwards the     *)
(* dict holds exactly one entry for the key, its value is the conversion   *)
(* of the new value, the entry count grew by one exactly if the key was    *)
(* absent, and no other entry changed.                                     *)
(***************************************************************************)
InsertReturnOld(key, value) ==
    LET before == EntriesFor(heap, TheDict, key)
        after  == EntriesFor(heap', TheDict, key)
    IN  /\ rv' = IF before = {} THEN NilObj
                 ELSE vim_to_object(heap, CHOOSE di \in before : TRUE).rv
        /\ Cardinality(after) = 1
        /\ \A di \in after : Represents(heap', heap'[di].tv, value)
        /\ Len(heap'[TheDict].items) =
              Len(heap[TheDict].items) + (IF before = {} THEN 1 ELSE 0)
        /\ \A di \in Entries(heap, TheDict) \ before :
              di \in Entries(heap', TheDict) /\ heap'[di] = heap[di]

C8_InsertReturnOld ==
    [][(/\ call'.op = "dictSet"
        /\ ~heap[TheDict].lock
        /\ Len(call'.key) > 0
        /\ ~HasEmptyKey(call'.value))
          => InsertReturnOld(call'.key, call'.value)]_vars

\* The same for the keys without a NUL byte (holds; shown for comparison).
C8_InsertReturnOldNulFreeKey ==
    [][(/\ call'.op = "dictSet"
        /\ ~heap[TheDict].lock
        /\ Len(call'.key) > 0
        /\ ~HasNul(call'.key)
        /\ ~HasEmptyKey(call'.value))
          => InsertReturnOld(call'.key, call'.value)]_vars

(***************************************************************************)
(* C10: after a conversion that succeeded (object_to_vim alone, or inside  *)
(* dict_set_value once the value is stored and the temporary cleared),     *)
(* every typval of a live cell refers to a live container, and every live  *)
(* list and dict made by a conversion has a reference count of 1, equal to *)
(* the number of live typvals that refer to it.                            *)
(***************************************************************************)
ConversionSucceeded ==
    \/ call.op = "convertFromNeutral" /\ ret
    \/ call.op = "dictSet" /\ ~err.set

C10_RefcountInvariant ==
    ConversionSucceeded =>
        /\ \A a \in TypvalCells(heap) :
              (Live(heap, a) /\ heap[a].tv.v_type \in {VAR_LIST, VAR_DICT})
                  => (heap[a].tv.v_ptr # NULL /\ Live(heap, heap[a].tv.v_ptr))
        /\ \A c \in Containers(heap) \ {TheDict} :
              Live(heap, c) =>
                  /\ heap[c].refcount = Cardinality(Bindings(heap, c))
                  /\ heap[c].refcount = 1

\* A stored Array that holds a Dictionary: two containers, each counted once.
C10_Witness ==
    /\ call.op = "dictSet" /\ ~err.set
    /\ \E di \in Entries(heap, TheDict) :
          /\ heap[di].tv.v_type = VAR_LIST
          /\ Live(heap, heap[di].tv.v_ptr)
          /\ heap[heap[di].tv.v_ptr].refcount = 1
          /\ \E li \in Entries(heap, heap[di].tv.v_ptr) :
                /\ heap[li].tv.v_type = VAR_DICT
                /\ heap[heap[li].tv.v_ptr].refcount = 1

(***************************************************************************)
(* C7: try_end reports the error of the first pending signal in the order  *)
(* interrupt, message list, exception.  With an interrupt pending it       *)
(* reports "Keyboard interrupt", clears the interrupt flag and drops an    *)
(* exception in flight; otherwise a message list gives its text and is     *)
(* emptied; otherwise an exception gives its value.                        *)
(***************************************************************************)
C7_CapturePriority ==
    call.op = "tryEnd" =>
        LET p == call.pending
        IN  /\ p.got_int =>
                 /\ err = set_api_error("Keyboard interrupt", NoError)
                 /\ ~got_int
                 /\ ~did_throw
            /\ (~p.got_int /\ p.msg_list # "") =>
                 /\ err = [set |-> TRUE, msg |-> p.msg_list]
                 /\ msg_list = ""
            /\ (~p.got_int /\ p.msg_list = "" /\ p.did_throw) =>
                 err = set_api_error(ExceptionValue, NoError)

\* try_end ran with all three signals pending.
C7_Witness ==
    /\ call.op = "tryEnd"
    /\ call.pending.got_int /\ call.pending.did_throw
    /\ call.pending.msg_list # ""
    /\ err.msg = "Keyboard interrupt"
    /\ ~did_throw /\ ~got_int

(***************************************************************************)
(* C9, as stated: try_end returns true exactly if one of the three signals *)
(* was pending when it was called, whatever ran before it.                 *)
(***************************************************************************)
SignalPending(p) == p.got_int \/ p.msg_list # "" \/ p.did_throw

C9_TrueIffSignalPending ==
    call.op = "tryEnd" =>
        /\ ret <=> SignalPending(call.pending)
        /\ ~SignalPending(call.pending) => ~err.set

(***************************************************************************)
(* C9, amended: try_end returns true exactly if the Error is set when it   *)
(* returns, that is, if a signal was pending or the Error it was given was *)
(* set already; with no signal pending it leaves the Error as it was.      *)
(***************************************************************************)
C9_TrueIffErrorSet ==
    call.op = "tryEnd" =>
        /\ ret <=> err.set
        /\ ret <=> (SignalPending(call.pending) \/ call.pending.err_set)
        /\ ~SignalPending(call.pending) => err.set = call.pending.err_set

\* try_end ran with no signal pending and an Error set by a failed call.
C9_Witness ==
    /\ call.op = "tryEnd"
    /\ ~SignalPending(call.pending)
    /\ call.pending.err_set
    /\ err = EmptyKeyError
    /\ ret

====
